---- MODULE Spec2Model ----
(***************************************************************************)
(* Model of codigo_yolo.py: a batch script that lists the images of an S3  *)
(* bucket, runs a person detector on each one, uploads the annotated image *)
(* and writes one item per image to a DynamoDB table.                      *)
(*                                                                         *)
(* Strings are sequences of one-character strings, so that basename,       *)
(* lower, endswith, concatenation and S3's byte order are computed as the  *)
(* code and the store compute them.                                        *)
(***************************************************************************)
EXTENDS Integers, Sequences, FiniteSets, TLC

\* ------------------------------------------------------------------ bounds
\* Number of times the script is executed over the same bucket and table.
MaxExecucoes == 2
\* Number of objects in the bucket before the first execution.
MaxObjetos == 2
\* Number of external calls that raise over the whole behaviour.
MaxFalhas == 2

\* ----------------------------------------------------------------- strings
\* ASCII codes of the characters used by the keys of the model.
Ord ==
  [c \in {".", "/", "G", "J", "N", "P", "_", "a", "b", "c", "d", "e", "g", "j",
          "l", "n", "o", "p", "r", "s", "t", "u", "x"} |->
     CASE c = "." -> 46 [] c = "/" -> 47 [] c = "G" -> 71 [] c = "J" -> 74
       [] c = "N" -> 78 [] c = "P" -> 80 [] c = "_" -> 95 [] c = "a" -> 97
       [] c = "b" -> 98 [] c = "c" -> 99 [] c = "d" -> 100 [] c = "e" -> 101
       [] c = "g" -> 103 [] c = "j" -> 106 [] c = "l" -> 108 [] c = "n" -> 110
       [] c = "o" -> 111 [] c = "p" -> 112 [] c = "r" -> 114 [] c = "s" -> 115
       [] c = "t" -> 116 [] c = "u" -> 117 [] c = "x" -> 120]

\* str.lower() on one character.
LowerChar(c) ==
  CASE c = "G" -> "g" [] c = "J" -> "j" [] c = "N" -> "n" [] c = "P" -> "p"
    [] OTHER -> c

\* str.lower()
Lower(s) == [n \in 1..Len(s) |-> LowerChar(s[n])]

\* str.endswith(suf) for one suffix
EndsWith(s, suf) ==
  /\ Len(suf) <= Len(s)
  /\ SubSeq(s, Len(s) - Len(suf) + 1, Len(s)) = suf

\* str.startswith(pre): the Prefix filter of list_objects_v2
StartsWith(s, pre) ==
  /\ Len(pre) <= Len(s)
  /\ SubSeq(s, 1, Len(pre)) = pre

\* os.path.basename: what follows the last "/"
BaseName(p) ==
  LET barras == {n \in 1..Len(p) : p[n] = "/"}
  IN  IF barras = {} THEN p
      ELSE SubSeq(p, (CHOOSE n \in barras : \A m \in barras : m <= n) + 1, Len(p))

\* Byte order of two strings (the order in which S3 lists keys).
RECURSIVE StrLess(_, _)
StrLess(s, t) ==
  IF s = <<>> THEN t # <<>>
  ELSE IF t = <<>> THEN FALSE
  ELSE IF s[1] # t[1] THEN Ord[s[1]] < Ord[t[1]]
  ELSE StrLess(Tail(s), Tail(t))

\* The keys of a set in S3's listing order.
RECURSIVE Ordenado(_)
Ordenado(S) ==
  IF S = {} THEN <<>>
  ELSE LET menor == CHOOSE k \in S : \A o \in S \ {k} : StrLess(k, o)
       IN  <<menor>> \o Ordenado(S \ {menor})

\* ----------------------------------------------------------- configuration
\* INPUT_PREFIXO: the default, "" (the whole bucket).
INPUT_PREFIXO == <<>>

\* OUTPUT_PREFIXO: the default, "resultados/".
OUTPUT_PREFIXO == <<"r", "e", "s", "u", "l", "t", "a", "d", "o", "s", "/">>

\* The extensions lista_imagens accepts: (".jpg", ".png").
Extensoes == {<<".", "j", "p", "g">>, <<".", "p", "n", "g">>}

\* The marker processa_imagem puts before the base name: "out_".
MarcaSaida == <<"o", "u", "t", "_">>

\* Keys per page of list_objects_v2 (1000 in S3, scaled down).
TamPagina == 2

\* ------------------------------------------------------------------ inputs
\* Keys an uploader may have put in the bucket: "a.jpg", "d/a.jpg",
\* "b.PNG" and "c.txt".
ChavesIniciais ==
  { <<"a", ".", "j", "p", "g">>,
    <<"d", "/", "a", ".", "j", "p", "g">>,
    <<"b", ".", "P", "N", "G">>,
    <<"c", ".", "t", "x", "t">> }

\* Largest number of people in a photograph.
MaxPessoas == 1

\* Python values that may be None: None, a str, a Decimal.
None == <<"None">>
Str(v) == <<"str", v>>
Dec(v) == <<"Decimal", v>>

\* User metadata an uploader may have attached to a photograph: a mapping,
\* written as the set of its <<name, value>> pairs.
Metadados ==
  { {},
    {<<"battery-level", "87.5">>, <<"device-timestamp", "2024-01-01T10:00:00">>},
    {<<"battery-level", "87.5">>},
    {<<"device-timestamp", "2024-01-01T10:00:00">>, <<"outro", "x">>},
    {<<"battery-level", "abc">>},
    {<<"outro", "x">>} }

\* dict.get(nome): the value of the name, None when the mapping lacks it.
Get(m, nome) ==
  IF \E par \in m : par[1] = nome
  THEN Str((CHOOSE par \in m : par[1] = nome)[2])
  ELSE None

\* Truth value of a str or None: None and "" are false.
Verdadeiro(v) == v # None /\ v # Str("")

\* The strings decimal.Decimal accepts, among those of the model.
DecimaisValidos == {"87.5"}

\* The photograph stored under key k: the image (the key it was first stored
\* under, the number of people in it, how many times it was annotated) and
\* its metadata.
Foto(k, n, m) ==
  [dados |-> [origem |-> k, pessoas |-> n, anotacoes |-> 0], meta |-> m]

\* The buckets the first execution may find.
BucketsIniciais ==
  UNION { { [k \in S |-> Foto(k, f[k][1], f[k][2])] :
              f \in [S -> (0..MaxPessoas) \X Metadados] } :
          S \in {T \in SUBSET ChavesIniciais : Cardinality(T) <= MaxObjetos} }

\* ----------------------------------------------------------- lista_imagens
\* A listing that reads the first page only.
PaginasSoPrimeira(chaves) ==
  IF Len(chaves) <= TamPagina THEN <<chaves>>
  ELSE <<SubSeq(chaves, 1, TamPagina)>>

\* The pages paginate() yields for a sequence of keys; a bucket with no key
\* under the prefix yields one page without "Contents".
RECURSIVE Paginas(_)
Paginas(chaves) ==
  IF Len(chaves) <= TamPagina THEN <<chaves>>
  ELSE <<SubSeq(chaves, 1, TamPagina)>>
         \o Paginas(SubSeq(chaves, TamPagina + 1, Len(chaves)))

\* key.lower().endswith((".jpg", ".png"))
EhImagem(key) == \E e \in Extensoes : EndsWith(Lower(key), e)

\* The two loops of lista_imagens over the pages and their contents.
RECURSIVE FiltraPaginas(_)
FiltraPaginas(pags) ==
  IF pags = <<>> THEN <<>>
  ELSE SelectSeq(Head(pags), EhImagem) \o FiltraPaginas(Tail(pags))

\* lista_imagens(bucket, prefix) on the bucket b.
lista_imagens(b, prefix) ==
  FiltraPaginas(Paginas(Ordenado({k \in DOMAIN b : StartsWith(k, prefix)})))

\* ------------------------------------------------------------------- state
VARIABLES
  s3,            \* the bucket: key -> [dados, meta]
  tabela,        \* the DynamoDB table: value of "imagem" -> item
  disco,         \* the working directory: file name -> image
  pc,            \* where main() is: "inicio", "loop", "fim", "abortado"
  imagens,       \* main's list of keys
  i,             \* position of the for loop of main in imagens
  etapa,         \* the call processa_imagem is about to make
  qtd_pessoas,   \* local of processa_imagem
  metadados,     \* local of processa_imagem
  hora_execucao, \* local of processa_imagem
  relogio,       \* the wall clock
  execucao,      \* number of the current execution of the script
  erro,          \* the exception that ended the process, if any
  \* History, kept for the properties only.
  falhas,        \* external calls that raised so far
  injetadas,     \* <<key, step>> of the calls that raised in this execution
  levantada,     \* the exception the paginator raised in this execution
  resultado,     \* how processa_imagem ended for each key of this execution
  gravacoes,     \* put_item calls that succeeded, per key, in this execution
  passos,        \* the calls made so far for the current key
  causa,         \* what raised out of main(): "lista", "item" or "nenhuma"
  registros_inicio, \* keys of the table when this execution listed the bucket
  entradas,      \* per item of the table: the metadata and count it was built from
  anterior,      \* per item overwritten in this execution: the item before, and its inputs
  orfaos,        \* key -> output key, where the output is stored and no item was ever written
  curados,       \* the orfaos for which this execution wrote the item
  chamadas,      \* per key of this execution: the external calls made for it, in order
  invocacoes,    \* the keys handed to processa_imagem in this execution, in order
  antes,         \* the bucket and the table when processa_imagem was last invoked
  fim_anterior   \* how the execution before this one ended

locais == <<qtd_pessoas, metadados, hora_execucao>>

vars ==
  <<s3, tabela, disco, pc, imagens, i, etapa, qtd_pessoas, metadados,
    hora_execucao, relogio, execucao, erro, falhas, injetadas, levantada,
    resultado, gravacoes, passos, causa, registros_inicio, entradas, anterior,
    orfaos, curados, chamadas, invocacoes, antes, fim_anterior>>

\* Kinds of exception: botocore's ClientError and any other Exception.
Excecoes == {"ClientError", "Outra"}

\* f with x mapped to v; f without x.
Poe(f, x, v) == [y \in DOMAIN f \cup {x} |-> IF y = x THEN v ELSE f[y]]
Tira(f, x) == [y \in DOMAIN f \ {x} |-> f[y]]
Vazio == [y \in {} |-> 0]

\* ------------------------------------------------------- processa_imagem
\* The key main() handed to processa_imagem.
Chave == imagens[i]

\* local_input = os.path.basename(input_key)
local_input(input_key) == BaseName(input_key)

\* local_output = "out_" + local_input
local_output(input_key) == MarcaSaida \o local_input(input_key)

\* An output key without the marker: the base name of the input.
output_key_sem_marca(input_key) == OUTPUT_PREFIXO \o BaseName(input_key)

\* output_key = OUTPUT_PREFIXO + os.path.basename(local_output)
output_key(input_key) == OUTPUT_PREFIXO \o BaseName(local_output(input_key))

\* results[0].plot(): the image with the boxes drawn on it.
Anotada(img) == [img EXCEPT !.anotacoes = @ + 1]

\* The calls in another order: the item is written before the upload.
ProximaEtapaTrocada(e) ==
  CASE e = "download" -> "detect"
    [] e = "detect" -> "meta"
    [] e = "meta" -> "persist"
    [] e = "persist" -> "upload"
    [] e = "upload" -> "limpeza"

\* The calls in another order: the item is written before the detection.
ProximaEtapaPersisteAntes(e) ==
  CASE e = "download" -> "meta"
    [] e = "meta" -> "persist"
    [] e = "persist" -> "detect"
    [] e = "detect" -> "upload"
    [] e = "upload" -> "limpeza"

\* The order of the calls of processa_imagem.
ProximaEtapa(e) ==
  CASE e = "download" -> "detect"
    [] e = "detect" -> "upload"
    [] e = "upload" -> "meta"
    [] e = "meta" -> "persist"
    [] e = "persist" -> "limpeza"

\* A loop that catches ClientError only.
MainCapturaClientError(e) == e = "ClientError"

\* except Exception of main(): the exceptions the loop catches.
MainCaptura(e) == e \in Excecoes

\* A loop that stops at the first key that fails.
ProximoIndiceBreak(n, res) == IF res = "ok" THEN n + 1 ELSE Len(imagens) + 1

\* A loop that processes a key again when it fails.
ProximoIndiceRepete(n, res) == IF res = "ok" THEN n + 1 ELSE n

\* A loop that skips the key after one that fails.
ProximoIndicePula(n, res) == IF res = "ok" THEN n + 1 ELSE n + 2

\* The for loop of main() after the key at position n: the next position.
ProximoIndice(n, res) == n + 1

\* Handlers that raise another exception in place of the one they caught.
PropagaEmbrulha(e) == "Outra"

\* raise of the handlers under __main__: the exception that ends the process.
Propaga(e) == e

\* except ClientError of pega_metadados.
MetadadosCaptura(e) == e = "ClientError"

\* A handler that prints the ClientError and does not raise it again.
SalvaDynamoEngole(e) == e # "ClientError"

\* raise of the except ClientError of salva_dynamo, and any other exception,
\* which nothing catches: the exceptions of put_item that leave salva_dynamo.
SalvaDynamoRelanca(e) == e \in Excecoes

\* An item whose hora_imagem falls back to the time of the execution.
ItemHoraPadrao(imagem_key, out_key, n_pessoas, meta, hora) ==
  [imagem |-> imagem_key,
   outputKey |-> out_key,
   qtd_pessoas |-> n_pessoas,
   bateria |-> IF Verdadeiro(Get(meta, "battery-level"))
               THEN Dec(Get(meta, "battery-level")[2]) ELSE None,
   hora_imagem |-> IF Verdadeiro(Get(meta, "device-timestamp"))
                   THEN Get(meta, "device-timestamp") ELSE <<"str", hora>>,
   hora_execucao |-> hora]

\* An item that names the local output file in place of the output key.
ItemSaidaLocal(imagem_key, out_key, n_pessoas, meta, hora) ==
  [imagem |-> imagem_key,
   outputKey |-> MarcaSaida \o BaseName(imagem_key),
   qtd_pessoas |-> n_pessoas,
   bateria |-> IF Verdadeiro(Get(meta, "battery-level"))
               THEN Dec(Get(meta, "battery-level")[2]) ELSE None,
   hora_imagem |-> IF Verdadeiro(Get(meta, "device-timestamp"))
                   THEN Get(meta, "device-timestamp") ELSE None,
   hora_execucao |-> hora]

\* The item salva_dynamo builds.
Item(imagem_key, out_key, n_pessoas, meta, hora) ==
  [imagem |-> imagem_key,
   outputKey |-> out_key,
   qtd_pessoas |-> n_pessoas,
   bateria |-> IF Verdadeiro(Get(meta, "battery-level"))
               THEN Dec(Get(meta, "battery-level")[2]) ELSE None,
   hora_imagem |-> IF Verdadeiro(Get(meta, "device-timestamp"))
                   THEN Get(meta, "device-timestamp") ELSE None,
   hora_execucao |-> hora]

\* metadados["battery-level"] read without get: it raises when the name is
\* absent, too.
DecimalLevantaSemChave(meta) ==
  \/ Get(meta, "battery-level") = None
  \/ /\ Verdadeiro(Get(meta, "battery-level"))
     /\ Get(meta, "battery-level")[2] \notin DecimaisValidos

\* Decimal(str(...)) of salva_dynamo raises InvalidOperation.
DecimalLevanta(meta) ==
  /\ Verdadeiro(Get(meta, "battery-level"))
  /\ Get(meta, "battery-level")[2] \notin DecimaisValidos

LimpaLocais ==
  /\ qtd_pessoas' = 0
  /\ metadados' = {}
  /\ hora_execucao' = 0
  /\ passos' = <<>>

\* processa_imagem is over for the current key, with result res; main() goes
\* on with the next key, or returns after the last one.
Termina(res) ==
  /\ resultado' = [resultado EXCEPT ![Chave] = res]
  /\ i' = ProximoIndice(i, res)
  /\ IF i' > Len(imagens)
     THEN pc' = "fim" /\ etapa' = "nenhuma"
     ELSE pc' = "loop" /\ etapa' = "download"
  /\ invocacoes' = IF i' <= Len(imagens)
                   THEN Append(invocacoes, imagens[i']) ELSE invocacoes
  /\ antes' = [s3 |-> s3, tabela |-> tabela]
  /\ LimpaLocais

\* The call of step et raises e: main() catches it and goes on, or it leaves
\* main() and ends the process.
Levanta(e, et) ==
  IF MainCaptura(e)
  THEN Termina(et) /\ UNCHANGED <<causa, erro>>
  ELSE /\ pc' = "abortado"
       /\ etapa' = "nenhuma"
       /\ causa' = "item"
       /\ erro' = Propaga(e)
       /\ LimpaLocais
       /\ UNCHANGED <<i, resultado, invocacoes, antes>>

\* An external call may raise.
Falha(et) ==
  /\ falhas < MaxFalhas
  /\ falhas' = falhas + 1
  /\ injetadas' = injetadas \cup {<<Chave, et>>}
  /\ chamadas' = [chamadas EXCEPT ![Chave] = Append(@, et)]

NaEtapa(e) == pc = "loop" /\ etapa = e

\* The call of step e returned.
Segue(e) ==
  /\ etapa' = ProximaEtapa(etapa)
  /\ passos' = Append(passos, e)
  /\ chamadas' = [chamadas EXCEPT ![Chave] = Append(@, e)]
  /\ UNCHANGED <<pc, i, resultado, causa, erro, falhas, injetadas, invocacoes, antes>>

\* download_s3(BUCKET, input_key, local_input) returns.
Download ==
  /\ NaEtapa("download")
  /\ Chave \in DOMAIN s3
  /\ disco' = Poe(disco, local_input(Chave), s3[Chave].dados)
  /\ Segue("download")
  /\ UNCHANGED <<s3, tabela, imagens, locais, relogio, execucao, levantada,
                 gravacoes, registros_inicio, entradas, anterior, orfaos, curados>>
  /\ UNCHANGED fim_anterior

\* download_s3 raises.
DownloadFalha ==
  /\ NaEtapa("download")
  /\ Falha("download")
  /\ Levanta("ClientError", "download")
  /\ UNCHANGED <<s3, tabela, disco, imagens, relogio, execucao, levantada,
                 gravacoes, registros_inicio, entradas, anterior, orfaos, curados>>
  /\ UNCHANGED fim_anterior

\* YOLO, imread, rotate, predict, plot and imwrite return.
Detecta ==
  /\ NaEtapa("detect")
  /\ local_input(Chave) \in DOMAIN disco
  /\ LET img == disco[local_input(Chave)]
     IN  /\ qtd_pessoas' = img.pessoas
         /\ disco' = Poe(disco, local_output(Chave), Anotada(img))
  /\ Segue("detect")
  /\ UNCHANGED <<s3, tabela, imagens, metadados, hora_execucao, relogio, execucao,
                 levantada, gravacoes, registros_inicio, entradas, anterior,
                 orfaos, curados>>
  /\ UNCHANGED fim_anterior

\* One of the calls of the detection raises (before imwrite wrote the file).
DetectaFalha ==
  /\ NaEtapa("detect")
  /\ Falha("detect")
  /\ Levanta("Outra", "detect")
  /\ UNCHANGED <<s3, tabela, disco, imagens, relogio, execucao, levantada,
                 gravacoes, registros_inicio, entradas, anterior, orfaos, curados>>
  /\ UNCHANGED fim_anterior

\* upload_s3(local_output, BUCKET, output_key) returns.
Upload ==
  /\ NaEtapa("upload")
  /\ local_output(Chave) \in DOMAIN disco
  /\ s3' = Poe(s3, output_key(Chave),
               [dados |-> disco[local_output(Chave)], meta |-> {}])
  /\ Segue("upload")
  /\ UNCHANGED <<tabela, disco, imagens, locais, relogio, execucao, levantada,
                 gravacoes, registros_inicio, entradas, anterior, orfaos, curados>>
  /\ UNCHANGED fim_anterior

\* upload_s3 raises.
UploadFalha ==
  /\ NaEtapa("upload")
  /\ Falha("upload")
  /\ Levanta("Outra", "upload")
  /\ UNCHANGED <<s3, tabela, disco, imagens, relogio, execucao, levantada,
                 gravacoes, registros_inicio, entradas, anterior, orfaos, curados>>
  /\ UNCHANGED fim_anterior

\* pega_metadados returns the metadata of the object; then processa_imagem
\* reads the clock.
PegaMetadados ==
  /\ NaEtapa("meta")
  /\ Chave \in DOMAIN s3
  /\ metadados' = s3[Chave].meta
  /\ hora_execucao' = relogio
  /\ relogio' = relogio + 1
  /\ Segue("meta")
  /\ UNCHANGED <<s3, tabela, disco, imagens, qtd_pessoas, execucao, levantada,
                 gravacoes, registros_inicio, entradas, anterior, orfaos, curados>>
  /\ UNCHANGED fim_anterior

\* head_object raises e: pega_metadados returns {} when it catches e, and
\* lets e through otherwise.
PegaMetadadosFalha ==
  /\ NaEtapa("meta")
  /\ Falha("meta")
  /\ \E e \in Excecoes :
       IF MetadadosCaptura(e)
       THEN /\ metadados' = {}
            /\ hora_execucao' = relogio
            /\ relogio' = relogio + 1
            /\ etapa' = ProximaEtapa(etapa)
            /\ passos' = Append(passos, "meta")
            /\ UNCHANGED <<pc, i, qtd_pessoas, resultado, causa, erro, invocacoes, antes>>
       ELSE /\ Levanta(e, "meta")
            /\ UNCHANGED relogio
  /\ UNCHANGED <<s3, tabela, disco, imagens, execucao, levantada,
                 gravacoes, registros_inicio, entradas, anterior, orfaos, curados>>
  /\ UNCHANGED fim_anterior

\* salva_dynamo returns: put_item wrote the item under its key "imagem".
SalvaDynamo ==
  /\ NaEtapa("persist")
  /\ ~DecimalLevanta(metadados)
  /\ tabela' = Poe(tabela, Chave,
                   Item(Chave, output_key(Chave), qtd_pessoas, metadados, hora_execucao))
  /\ gravacoes' = [gravacoes EXCEPT ![Chave] = @ + 1]
  /\ entradas' = Poe(entradas, Chave, <<metadados, qtd_pessoas>>)
  /\ anterior' = IF Chave \in DOMAIN tabela
                 THEN Poe(anterior, Chave,
                          [item |-> tabela[Chave], entradas |-> entradas[Chave]])
                 ELSE anterior
  /\ curados' = IF Chave \in DOMAIN orfaos
                THEN Poe(curados, Chave, orfaos[Chave]) ELSE curados
  /\ orfaos' = Tira(orfaos, Chave)
  /\ Segue("persist")
  /\ UNCHANGED <<s3, disco, imagens, locais, relogio, execucao, levantada,
                 registros_inicio>>
  /\ UNCHANGED fim_anterior

\* What a failed salva_dynamo leaves behind: an output with no item.
Orfaos ==
  IF Chave \in DOMAIN tabela THEN orfaos
  ELSE Poe(orfaos, Chave, output_key(Chave))

\* Decimal(str(metadados["battery-level"])) raises before put_item is called.
SalvaDynamoDecimal ==
  /\ NaEtapa("persist")
  /\ DecimalLevanta(metadados)
  /\ Levanta("Outra", "persist")
  /\ orfaos' = Orfaos
  /\ UNCHANGED chamadas
  /\ UNCHANGED <<s3, tabela, disco, imagens, relogio, execucao, falhas, injetadas,
                 levantada, gravacoes, registros_inicio, entradas, anterior, curados>>
  /\ UNCHANGED fim_anterior

\* put_item raises e.
SalvaDynamoFalha ==
  /\ NaEtapa("persist")
  /\ ~DecimalLevanta(metadados)
  /\ Falha("persist")
  /\ \E e \in Excecoes :
       IF SalvaDynamoRelanca(e)
       THEN Levanta(e, "persist")
       ELSE /\ etapa' = ProximaEtapa(etapa)
            /\ passos' = Append(passos, "persist")
            /\ UNCHANGED <<pc, i, locais, resultado, causa, erro, invocacoes, antes>>
  /\ orfaos' = Orfaos
  /\ UNCHANGED <<s3, tabela, disco, imagens, relogio, execucao, levantada,
                 gravacoes, registros_inicio, entradas, anterior, curados>>
  /\ UNCHANGED fim_anterior

\* Both os.remove calls return, and so does processa_imagem.
Limpeza ==
  /\ NaEtapa("limpeza")
  /\ {local_input(Chave), local_output(Chave)} \subseteq DOMAIN disco
  /\ disco' = Tira(Tira(disco, local_input(Chave)), local_output(Chave))
  /\ chamadas' = [chamadas EXCEPT ![Chave] = Append(@, "limpeza")]
  /\ Termina("ok")
  /\ UNCHANGED <<s3, tabela, imagens, relogio, execucao, erro, falhas, injetadas,
                 levantada, gravacoes, causa, registros_inicio, entradas, anterior,
                 orfaos, curados>>
  /\ UNCHANGED fim_anterior

\* The first or the second os.remove raises.
LimpezaFalha ==
  /\ NaEtapa("limpeza")
  /\ Falha("limpeza")
  /\ \E qual \in {1, 2} :
       disco' = IF qual = 1 THEN disco ELSE Tira(disco, local_input(Chave))
  /\ Levanta("Outra", "limpeza")
  /\ UNCHANGED <<s3, tabela, imagens, relogio, execucao, levantada,
                 gravacoes, registros_inicio, entradas, anterior, orfaos, curados>>
  /\ UNCHANGED fim_anterior

\* -------------------------------------------------------------------- main
Elementos(seq) == {seq[n] : n \in 1..Len(seq)}

\* A run that would raise in place of the return on an empty list.
SemImagensErro == "abortado"

\* return of main() on an empty list: where main() is after it.
SemImagens == "fim"

\* lista_imagens returns: main() returns at once on an empty list, and
\* enters its loop otherwise.
Lista ==
  /\ pc = "inicio"
  /\ imagens' = lista_imagens(s3, INPUT_PREFIXO)
  /\ i' = 1
  /\ IF imagens' = <<>>
     THEN pc' = SemImagens /\ etapa' = "nenhuma"
     ELSE pc' = "loop" /\ etapa' = "download"
  /\ resultado' = [k \in Elementos(imagens') |-> "pendente"]
  /\ gravacoes' = [k \in Elementos(imagens') |-> 0]
  /\ chamadas' = [k \in Elementos(imagens') |-> <<>>]
  /\ invocacoes' = IF imagens' = <<>> THEN <<>> ELSE <<imagens'[1]>>
  /\ antes' = [s3 |-> s3, tabela |-> tabela]
  /\ registros_inicio' = DOMAIN tabela
  /\ UNCHANGED <<s3, tabela, disco, locais, relogio, execucao, erro, falhas,
                 injetadas, levantada, passos, causa, entradas, anterior,
                 orfaos, curados>>
  /\ UNCHANGED fim_anterior

\* The paginator raises: the exception leaves lista_imagens and main(), and
\* the handlers under __main__ raise it again.
ListaFalha ==
  /\ pc = "inicio"
  /\ falhas < MaxFalhas
  /\ falhas' = falhas + 1
  /\ \E e \in Excecoes :
       /\ levantada' = e
       /\ erro' = Propaga(e)
  /\ pc' = "abortado"
  /\ causa' = "lista"
  /\ UNCHANGED <<chamadas, invocacoes, antes>>
  /\ UNCHANGED <<s3, tabela, disco, imagens, i, etapa, locais, relogio, execucao,
                 injetadas, resultado, gravacoes, passos, registros_inicio,
                 entradas, anterior, orfaos, curados>>
  /\ UNCHANGED fim_anterior

\* The script is run again over the same bucket, table and directory.
NovaExecucao ==
  /\ pc \in {"fim", "abortado"}
  /\ execucao < MaxExecucoes
  /\ execucao' = execucao + 1
  /\ pc' = "inicio"
  /\ imagens' = <<>>
  /\ i' = 1
  /\ erro' = "nenhuma"
  /\ injetadas' = {}
  /\ levantada' = "nenhuma"
  /\ resultado' = Vazio
  /\ gravacoes' = Vazio
  /\ causa' = "nenhuma"
  /\ registros_inicio' = {}
  /\ anterior' = Vazio
  /\ curados' = Vazio
  /\ chamadas' = Vazio
  /\ invocacoes' = <<>>
  /\ antes' = [s3 |-> Vazio, tabela |-> Vazio]
  /\ fim_anterior' =
       [objetos |-> DOMAIN s3,
        registros |-> DOMAIN tabela,
        limpo |-> /\ pc = "fim"
                  /\ injetadas = {}
                  /\ \A k \in DOMAIN resultado : resultado[k] = "ok"]
  /\ UNCHANGED <<s3, tabela, disco, etapa, locais, relogio, falhas, passos,
                 entradas, orfaos>>

\* The exit status of the process: non-zero when an exception ended it.
Status == IF erro = "nenhuma" THEN 0 ELSE 1

Init ==
  /\ s3 \in BucketsIniciais
  /\ tabela = Vazio
  /\ disco = Vazio
  /\ pc = "inicio"
  /\ imagens = <<>>
  /\ i = 1
  /\ etapa = "nenhuma"
  /\ qtd_pessoas = 0
  /\ metadados = {}
  /\ hora_execucao = 0
  /\ relogio = 1
  /\ execucao = 1
  /\ erro = "nenhuma"
  /\ falhas = 0
  /\ injetadas = {}
  /\ levantada = "nenhuma"
  /\ resultado = Vazio
  /\ gravacoes = Vazio
  /\ passos = <<>>
  /\ causa = "nenhuma"
  /\ registros_inicio = {}
  /\ entradas = Vazio
  /\ anterior = Vazio
  /\ orfaos = Vazio
  /\ curados = Vazio
  /\ chamadas = Vazio
  /\ invocacoes = <<>>
  /\ antes = [s3 |-> Vazio, tabela |-> Vazio]
  /\ fim_anterior = [objetos |-> {}, registros |-> {}, limpo |-> FALSE]

Next ==
  \/ Lista
  \/ ListaFalha
  \/ Download
  \/ DownloadFalha
  \/ Detecta
  \/ DetectaFalha
  \/ Upload
  \/ UploadFalha
  \/ PegaMetadados
  \/ PegaMetadadosFalha
  \/ SalvaDynamo
  \/ SalvaDynamoDecimal
  \/ SalvaDynamoFalha
  \/ Limpeza
  \/ LimpezaFalha
  \/ NovaExecucao

Spec == Init /\ [][Next]_vars

\* A step of the running script: every action but the start of a new
\* execution, which is the operator's choice.
Passo ==
  \/ Lista
  \/ ListaFalha
  \/ Download
  \/ DownloadFalha
  \/ Detecta
  \/ DetectaFalha
  \/ Upload
  \/ UploadFalha
  \/ PegaMetadados
  \/ PegaMetadadosFalha
  \/ SalvaDynamo
  \/ SalvaDynamoDecimal
  \/ SalvaDynamoFalha
  \/ Limpeza
  \/ LimpezaFalha

\* The script is single-threaded and every call it makes returns or raises:
\* a started execution keeps taking steps.
\* Whether an execution ends depends on no image and on no metadata but for
\* a battery level that Decimal rejects: the buckets with photographs of
\* nobody, with no metadata or with such a battery level.
BucketsTerminacao ==
  { b \in BucketsIniciais :
      \A k \in DOMAIN b :
        /\ b[k].dados.pessoas = 0
        /\ b[k].meta \in {{}, {<<"battery-level", "abc">>}} }

InitJusta == Init /\ s3 \in BucketsTerminacao

SpecJusta == InitJusta /\ [][Next]_vars /\ WF_vars(Passo)

\* -------------------------------------------------------------- properties
\* processa_imagem has just ended for a key, which is Ultima.
AcabouItem ==
  /\ i > 1
  /\ \/ pc = "loop" /\ etapa = "download"
     \/ pc = "fim"
Ultima == imagens[i - 1]

Falhou(k) == resultado[k] \notin {"ok", "pendente"}

\* C1: failure isolation. Whatever calls raise, main() hands every listed key
\* to processa_imagem: inside the loop every key before the current one was
\* processed, and an execution that obtained its listing ends with every
\* listed key processed.
C1_IsolamentoDeFalhas ==
  /\ pc = "loop" =>
       /\ i <= Len(imagens)
       /\ \A n \in 1..(i - 1) : resultado[imagens[n]] # "pendente"
  /\ (pc \in {"fim", "abortado"} /\ causa # "lista") =>
       \A k \in Elementos(imagens) : resultado[k] # "pendente"

\* An execution ended in which a key failed and the key after it was
\* processed with success.
C1_Testemunha ==
  /\ pc = "fim"
  /\ \E n \in 1..(Len(imagens) - 1) :
       Falhou(imagens[n]) /\ resultado[imagens[n + 1]] = "ok"

\* C2: put_item succeeded exactly once for every key whose processing
\* succeeded, and never for a key that failed at the download, the detection
\* or the upload.
C2_UmRegistroPorSucesso ==
  \A k \in DOMAIN resultado :
    /\ resultado[k] = "ok" => gravacoes[k] = 1
    /\ resultado[k] \in {"download", "detect", "upload"} => gravacoes[k] = 0

\* An execution ended with a key that succeeded and a key that failed at the
\* upload.
C2_Testemunha ==
  /\ pc = "fim"
  /\ \E k \in DOMAIN resultado : resultado[k] = "ok" /\ gravacoes[k] = 1
  /\ \E k \in DOMAIN resultado : resultado[k] = "upload" /\ gravacoes[k] = 0

\* C3: when processa_imagem has ended for a key, by returning or by raising
\* at the detection, the upload or the persistence, neither scratch file of
\* the key is in the working directory.
C3_LimpezaEmTodaSaida ==
  (AcabouItem /\ resultado[Ultima] \in {"ok", "detect", "upload", "persist"}) =>
    /\ local_input(Ultima) \notin DOMAIN disco
    /\ local_output(Ultima) \notin DOMAIN disco

\* C4: in an execution that began with an empty table and in which the only
\* call that raised is the detection of key k (and no other key fails),
\* every key but k has an item at the end and the table holds N-1 items.
C4_IsolamentoDoResultado ==
  \A k \in Elementos(imagens) :
    ( /\ pc \in {"fim", "abortado"}
      /\ causa # "lista"
      /\ registros_inicio = {}
      /\ injetadas = {<<k, "detect">>}
      /\ \A o \in Elementos(imagens) \ {k} : ~DecimalLevanta(s3[o].meta) )
    => /\ DOMAIN tabela = Elementos(imagens) \ {k}
       /\ Cardinality(DOMAIN tabela) = Len(imagens) - 1

\* An execution of two keys or more ended with the detection of one key as
\* its only failure.
C4_Testemunha ==
  /\ pc = "fim"
  /\ Len(imagens) >= 2
  /\ registros_inicio = {}
  /\ \E k \in Elementos(imagens) :
       /\ injetadas = {<<k, "detect">>}
       /\ resultado[k] = "detect"
       /\ DOMAIN tabela = Elementos(imagens) \ {k}

\* The calls of processa_imagem, in the order of the claim.
Ordem == <<"download", "detect", "upload", "meta", "persist", "limpeza">>

\* C5: the calls made for a key are download, detection, upload, metadata
\* read and persist, in that order, each made only after the ones before it
\* returned; so every item of the table names an output key under which an
\* annotated image is already stored.
C5_OrdemDasEtapas ==
  /\ pc = "loop" =>
       /\ Len(passos) < Len(Ordem)
       /\ passos = SubSeq(Ordem, 1, Len(passos))
       /\ etapa = Ordem[Len(passos) + 1]
  /\ \A k \in DOMAIN tabela :
       /\ tabela[k].outputKey \in DOMAIN s3
       /\ s3[tabela[k].outputKey].dados.anotacoes >= 1

\* The item of the current key was written after the five calls before it.
C5_Testemunha ==
  /\ NaEtapa("limpeza")
  /\ gravacoes[Chave] = 1
  /\ Chave \in DOMAIN tabela

\* C6: a metadata read that fails never makes processa_imagem fail: no key
\* ends with a failure of the metadata step.
C6_MetadadosMelhorEsforco ==
  \A k \in DOMAIN resultado :
    (\E par \in injetadas : par = <<k, "meta">>) => resultado[k] # "meta"

\* C7 as claimed: when put_item raises for a key, processa_imagem fails at
\* the persistence, main() goes on, the output is stored and the table has
\* no item for the key.
C7_FalhaDePersistencia ==
  \A k \in DOMAIN resultado :
    <<k, "persist">> \in injetadas =>
      /\ resultado[k] = "persist"
      /\ causa # "item"
      /\ output_key(k) \in DOMAIN s3
      /\ k \notin DOMAIN tabela

\* C7 as amended: when put_item raises for a key, processa_imagem fails at
\* the persistence, main() goes on, the output is stored, and no item was
\* written for the key by this execution: the table has no item for the key
\* unless it had one when the execution began.
C7_FalhaDePersistenciaEmendada ==
  \A k \in DOMAIN resultado :
    <<k, "persist">> \in injetadas =>
      /\ resultado[k] = "persist"
      /\ causa # "item"
      /\ output_key(k) \in DOMAIN s3
      /\ gravacoes[k] = 0
      /\ k \in DOMAIN tabela <=> k \in registros_inicio

\* put_item raised for a key whose output is stored and which has no item.
C7_Testemunha ==
  \E k \in DOMAIN resultado :
    /\ <<k, "persist">> \in injetadas
    /\ resultado[k] = "persist"
    /\ output_key(k) \in DOMAIN s3
    /\ k \notin DOMAIN tabela

\* C8: an exception of the listing leaves main() as it was raised, with no
\* key processed, and the process exits non-zero; no exception raised while a
\* key is processed leaves main(), so without a failure of the listing the
\* process does not exit non-zero.
C8_FataisEContidos ==
  /\ causa # "item"
  /\ causa = "lista" =>
       /\ pc = "abortado"
       /\ erro = levantada
       /\ Status # 0
       /\ imagens = <<>>
       /\ resultado = Vazio
  /\ causa = "nenhuma" => (pc # "abortado" /\ Status = 0)

\* A second execution ended by a failure of its listing, after a first
\* execution in which a key failed and the process went on.
C8_Testemunha ==
  /\ execucao = 2
  /\ pc = "abortado"
  /\ causa = "lista"
  /\ Status = 1
  /\ orfaos # Vazio

\* An item but for its hora_execucao.
SemHora(it) == [it EXCEPT !.hora_execucao = 0]

\* C9: an item written again for a key, from the same metadata and the same
\* count as the item it replaces, names the same output key, which is
\* stored, and equals the item it replaces in every field but
\* hora_execucao; the table still has one item for the key.
C9_Idempotencia ==
  \A k \in DOMAIN anterior :
    anterior[k].entradas = entradas[k] =>
      /\ k \in DOMAIN tabela
      /\ tabela[k].outputKey = anterior[k].item.outputKey
      /\ tabela[k].outputKey \in DOMAIN s3
      /\ SemHora(tabela[k]) = SemHora(anterior[k].item)
      /\ tabela[k].imagem = k

\* An item was replaced by one built from the same inputs at a later time.
C9_Testemunha ==
  \E k \in DOMAIN anterior :
    /\ anterior[k].entradas = entradas[k]
    /\ tabela[k].hora_execucao # anterior[k].item.hora_execucao

\* C10: when processa_imagem returns for a key whose output an earlier
\* execution had stored without writing its item, the table has the item of
\* the key, the item names the output key of that earlier execution, and the
\* object under it is the annotated image of the key.
C10_CuraNaReexecucao ==
  (AcabouItem /\ resultado[Ultima] = "ok" /\ Ultima \in DOMAIN curados) =>
    /\ Ultima \in DOMAIN tabela
    /\ Ultima \notin DOMAIN orfaos
    /\ tabela[Ultima].imagem = Ultima
    /\ tabela[Ultima].outputKey = curados[Ultima]
    /\ curados[Ultima] \in DOMAIN s3
    /\ s3[curados[Ultima]].dados = Anotada(s3[Ultima].dados)
    /\ tabela[Ultima].qtd_pessoas = s3[Ultima].dados.pessoas

\* processa_imagem has just returned for a key that an earlier execution
\* left with an output and no item.
C10_Testemunha ==
  /\ AcabouItem
  /\ resultado[Ultima] = "ok"
  /\ Ultima \in DOMAIN curados
  /\ Ultima \in DOMAIN tabela

\* main() is over and every key it listed was processed, with success or not.
Terminado ==
  /\ pc \in {"fim", "abortado"}
  /\ \A k \in Elementos(imagens) : resultado[k] # "pendente"

\* C20: termination. When every call returns or raises, every execution that
\* starts ends, and when it ends every key it listed has succeeded or failed.
C20_Terminacao == (pc = "inicio") ~> Terminado

\* An execution ended after a key failed and a key succeeded.
C20_Testemunha ==
  /\ Terminado
  /\ Len(imagens) >= 2
  /\ \E k \in Elementos(imagens) : Falhou(k)
  /\ \E k \in Elementos(imagens) : resultado[k] = "ok"

\* "photos/001.jpg", the key of the example of C11, and the output keys the
\* code and the claim give for it.
Photos001 ==
  <<"p", "h", "o", "t", "o", "s", "/", "0", "0", "1", ".", "j", "p", "g">>
ResultadosOut001 ==
  <<"r", "e", "s", "u", "l", "t", "a", "d", "o", "s", "/",
    "o", "u", "t", "_", "0", "0", "1", ".", "j", "p", "g">>

\* The item of key k has the fields C11 names, the output key being under
\* the prefix pre.
RegistroDe(k, pre) ==
  LET r == tabela[k]
      m == s3[k].meta
  IN  /\ r.imagem = k
      /\ r.outputKey = pre \o MarcaSaida \o BaseName(k)
      /\ r.qtd_pessoas = s3[k].dados.pessoas
      /\ <<k, "meta">> \notin injetadas =>
           /\ Get(m, "battery-level") # None =>
                r.bateria = Dec(Get(m, "battery-level")[2])
           /\ Get(m, "device-timestamp") # None =>
                r.hora_imagem = Get(m, "device-timestamp")

BateriaBemFormada(m) ==
  \/ Get(m, "battery-level") = None
  \/ Get(m, "battery-level")[2] \in DecimaisValidos

\* C12: a key whose metadata lacks battery-level, device-timestamp or both
\* (the rest being well formed, and no call raising for the key) is processed
\* with success, its item is written, and the field of each absent name is
\* None.
C12_MetadadosOpcionais ==
  ( /\ AcabouItem
    /\ \A par \in injetadas : par[1] # Ultima
    /\ BateriaBemFormada(s3[Ultima].meta)
    /\ \/ Get(s3[Ultima].meta, "battery-level") = None
       \/ Get(s3[Ultima].meta, "device-timestamp") = None )
  => /\ resultado[Ultima] = "ok"
     /\ gravacoes[Ultima] = 1
     /\ Ultima \in DOMAIN tabela
     /\ Get(s3[Ultima].meta, "battery-level") = None =>
          tabela[Ultima].bateria = None
     /\ Get(s3[Ultima].meta, "device-timestamp") = None =>
          tabela[Ultima].hora_imagem = None

\* processa_imagem has just returned for a key whose metadata has an
\* unrecognised name only.
C12_Testemunha ==
  /\ AcabouItem
  /\ resultado[Ultima] = "ok"
  /\ s3[Ultima].meta = {<<"outro", "x">>}
  /\ tabela[Ultima].bateria = None
  /\ tabela[Ultima].hora_imagem = None

\* The key ends in .jpg or .png, in any case of the letters.
TerminaEmJpgOuPng(k) ==
  /\ Len(k) >= 4
  /\ k[Len(k) - 3] = "."
  /\ \/ k[Len(k) - 2] \in {"j", "J"} /\ k[Len(k) - 1] \in {"p", "P"} /\ k[Len(k)] \in {"g", "G"}
     \/ k[Len(k) - 2] \in {"p", "P"} /\ k[Len(k) - 1] \in {"n", "N"} /\ k[Len(k)] \in {"g", "G"}

\* C13: whatever the bucket holds, over all its pages, lista_imagens returns
\* the keys that end in .jpg or .png in any case, each once, in the order of
\* the store, and no other key.
C13_FiltroCorreto ==
  [][ (pc = "inicio" /\ pc' \in {"loop", "fim"}) =>
        LET esperadas == {k \in DOMAIN s3 : TerminaEmJpgOuPng(k)}
        IN  /\ Elementos(imagens') = esperadas
            /\ Len(imagens') = Cardinality(esperadas)
            /\ \A m, n \in 1..Len(imagens') :
                 m < n => StrLess(imagens'[m], imagens'[n]) ]_vars

\* A listing of more than one page has just returned, with a key in upper
\* case in it and a key that is no image left out.
C13_Testemunha ==
  /\ pc = "loop" /\ etapa = "download" /\ i = 1
  /\ Cardinality(DOMAIN s3) > TamPagina
  /\ \E k \in Elementos(imagens) : Lower(k) # k
  /\ \E k \in DOMAIN s3 : k \notin Elementos(imagens)

\* C14: the first step of an execution, and only the first, is the call of
\* lista_imagens; when it returns no key main() returns, with no error and
\* no call made, and nothing more happens in that execution.
C14_ListagemVazia ==
  [][ /\ pc = "inicio" => pc' # "inicio"
      /\ pc' = "inicio" => (pc \in {"fim", "abortado"} /\ execucao' = execucao + 1)
      /\ (pc = "inicio" /\ causa' # "lista" /\ imagens' = <<>>) =>
           /\ pc' = "fim"
           /\ erro' = "nenhuma"
           /\ etapa' = "nenhuma"
           /\ resultado' = Vazio
           /\ gravacoes' = Vazio
           /\ chamadas' = Vazio
           /\ invocacoes' = <<>>
           /\ UNCHANGED <<s3, tabela, disco, relogio, injetadas, passos>>
      /\ (pc = "fim" /\ imagens = <<>>) => pc' = "inicio" ]_vars

\* An execution over a bucket with no image ended with no error.
C14_Testemunha ==
  /\ pc = "fim"
  /\ imagens = <<>>
  /\ DOMAIN s3 # {}
  /\ Status = 0

\* C15: when processa_imagem fails for a key at the download or at the
\* detection, the bucket and the table are as they were when it was invoked
\* for the key.
C15_SemMutacaoAntesDoUpload ==
  [][ \A k \in DOMAIN resultado :
        ( /\ resultado[k] = "pendente"
          /\ k \in DOMAIN resultado'
          /\ resultado'[k] \in {"download", "detect"} )
        => (s3' = antes.s3 /\ tabela' = antes.tabela) ]_vars

\* processa_imagem has just failed at the detection for a key that has
\* neither an output nor an item.
C15_Testemunha ==
  /\ AcabouItem
  /\ resultado[Ultima] = "detect"
  /\ output_key(Ultima) \notin DOMAIN s3
  /\ Ultima \notin DOMAIN tabela

\* C16: processa_imagem is invoked for the listed keys in the order of the
\* list, once each; every key before the last one invoked is over, so at
\* most one key is being processed; main() returns after the last key.
C16_PassagemUnica ==
  /\ Len(invocacoes) <= Len(imagens)
  /\ invocacoes = SubSeq(imagens, 1, Len(invocacoes))
  /\ Cardinality(Elementos(imagens)) = Len(imagens)
  /\ \A n \in 1..(Len(invocacoes) - 1) : resultado[invocacoes[n]] # "pendente"
  /\ Cardinality({k \in Elementos(invocacoes) : resultado[k] = "pendente"}) <= 1
  /\ \A k \in Elementos(imagens) \ Elementos(invocacoes) : chamadas[k] = <<>>
  /\ pc = "fim" =>
       /\ invocacoes = imagens
       /\ \A k \in Elementos(imagens) : resultado[k] # "pendente"

\* An execution of two keys or more ended.
C16_Testemunha ==
  /\ pc = "fim"
  /\ Len(imagens) >= 2
  /\ invocacoes = imagens

\* The external operations C17 names.
Operacoes == {"download", "detect", "upload", "meta", "persist"}

\* No call is made twice for key k.
UmaVezCada(k) ==
  \A m, n \in 1..Len(chamadas[k]) : m # n => chamadas[k][m] # chamadas[k][n]

\* The call of step et raised for key k and no call was made for k after it.
UltimaChamada(k, et) ==
  <<k, et>> \in injetadas => chamadas[k][Len(chamadas[k])] = et

\* C17 as claimed: in one execution no external operation is invoked twice
\* for a key, and after one of them raises no other call is made for the key.
C17_SemRetentativa ==
  \A k \in DOMAIN chamadas :
    /\ UmaVezCada(k)
    /\ \A et \in Operacoes : UltimaChamada(k, et)

\* C17 as amended: in one execution no external operation is invoked twice
\* for a key, and after the download, the detection, the upload or the
\* record write raises no other call is made for the key (after a metadata
\* read that raises, the record write may follow).
C17_SemRetentativaEmendada ==
  \A k \in DOMAIN chamadas :
    /\ UmaVezCada(k)
    /\ \A et \in Operacoes \ {"meta"} : UltimaChamada(k, et)

\* The upload raised for a key, and the metadata read raised for another,
\* for which the record write followed.
C17_Testemunha ==
  /\ \E k \in DOMAIN chamadas :
       /\ <<k, "upload">> \in injetadas
       /\ chamadas[k] = <<"download", "detect", "upload">>
  /\ \E k \in DOMAIN chamadas :
       /\ <<k, "meta">> \in injetadas
       /\ Len(chamadas[k]) >= 5
       /\ chamadas[k][5] = "persist"

\* C18: a second execution in which nothing fails, after a first one in
\* which nothing failed, ends with the keys of the bucket and the keys of
\* the table that the first one left, and lists no output of the first one.
C18_SemAcumulo ==
  ( /\ execucao > 1
    /\ pc = "fim"
    /\ fim_anterior.limpo
    /\ injetadas = {}
    /\ \A k \in DOMAIN resultado : resultado[k] = "ok" )
  => /\ DOMAIN s3 = fim_anterior.objetos
     /\ DOMAIN tabela = fim_anterior.registros
     /\ \A k \in Elementos(imagens) : ~StartsWith(k, OUTPUT_PREFIXO)

\* C19: two keys of one listing that were both processed with success have
\* different output keys and different scratch files.
C19_SaidasDistintas ==
  \A k1, k2 \in DOMAIN resultado :
    (k1 # k2 /\ resultado[k1] = "ok" /\ resultado[k2] = "ok") =>
      /\ tabela[k1].outputKey # tabela[k2].outputKey
      /\ local_input(k1) # local_input(k2)
      /\ local_output(k1) # local_output(k2)

====
